---- MODULE Spec2Model ----
(***************************************************************************)
(* Model of the gavcoin dapp's Application component                       *)
(* (js/src/dapps/gavcoin/Application/application.js).                      *)
(*                                                                         *)
(* The component's React state is the record `state`.  Every promise       *)
(* callback of attachInterface and onNewBlockNumber is one action: it runs *)
(* to completion in one JavaScript task, so nothing can observe the state  *)
(* in the middle of it.  The code attaches its callbacks to Promise.all of *)
(* a batch of reads, never to a single read, so a batch settles in one     *)
(* step: it resolves with one result per read, each served from a chain    *)
(* state that was the latest at some time since the batch was issued, or   *)
(* it rejects because one of its reads failed.                             *)
(*                                                                         *)
(* JavaScript values that may be null or undefined are held as sequences   *)
(* of length at most one: << >> is null/undefined, <<v>> is the value v.   *)
(***************************************************************************)
EXTENDS Integers, Sequences, FiniteSets, TLC

\* ------------------------------------------------------------------ bounds
\* Number of blocks the node produces (one notification each).
MaxBlocks == 2
\* Largest number of accounts personal.listAccounts returns.
MaxAccounts == 2

\* --------------------------------------------------------------- constants
DIVISOR == 1000000

\* Native amounts are held as a count of szabo (10^12 wei): TLC's integers
\* are 32 bits wide and one ether is 10^18 wei.  The chain states below only
\* hold native balances that are whole numbers of szabo.
SzaboPerEther == 1000000

Null == << >>
Undefined == << >>
Some(v) == <<v>>
ValueOf(o) == o[1]

Addresses == 1..MaxAccounts
GavcoinAddress == 100
ActionKinds == {"BuyIn", "Refund", "Transfer"}
GlobalReads == {"totalSupply", "remaining", "price"}

VARIABLES
  state,       \* this.state of the component
  boot,        \* position of attachInterface's promise chain
  subscribed,  \* api.events.subscribe('eth.blockNumber', ...) has been called
  console,     \* what console.log / console.error have printed, in order
  head,        \* number of the latest block
  chain,       \* index of the chain state as of the latest block
  passes,      \* one record per call of onNewBlockNumber, in call order
  src,         \* which pass wrote the global counters / the balances last
  last,        \* the reads of the pass that wrote the balances last
  lastCall     \* the last call of onAction / onActionClose

vars == <<state, boot, subscribed, console, head, chain, passes, src, last, lastCall>>

\* ------------------------------------------------------------ environment
\* The two chain states a block can leave behind: the contract's counters and
\* every address's token balance (raw units) and native balance (szabo).  In
\* state 2 address 1 has paid for new tokens and moved all its tokens to
\* address 2; the accounts from address 3 on are the same in both.
Worlds == {1, 2}

World(w) ==
  [ totalSupply |-> 1000000 * w,
    remaining   |-> 5000 - w,
    price       |-> 10,
    gav         |-> [a \in Addresses |->
                       CASE a = 1 -> IF w = 1 THEN 1500000 ELSE 0
                         [] a = 2 -> IF w = 1 THEN 0 ELSE 1500001
                         [] OTHER -> 2500000 + a],
    eth         |-> [a \in Addresses |->
                       CASE a = 1 -> 1234567 + 500 * w
                         [] a = 2 -> 0
                         [] OTHER -> 7654321 + a] ]

RECURSIVE Range(_, _)
Range(lo, hi) == IF lo > hi THEN << >> ELSE <<lo>> \o Range(lo + 1, hi)

Reverse(s) == [i \in 1..Len(s) |-> s[Len(s) + 1 - i]]

\* The account lists personal.listAccounts may return: the first n addresses,
\* highest first, so that the position of an account is not its address.
AddressLists == {Reverse(Range(1, n)) : n \in 0..MaxAccounts}

\* The metadata personal.accountsInfo may return: a label for every address
\* (an empty one for address 1), or no entry at all for address 1.
InfoLabels == [a \in Addresses |-> [name |-> IF a = 1 THEN "" ELSE "acct"]]
InfoMissing == [a \in Addresses \ {1} |-> [name |-> "acct"]]
InfoMaps == {InfoLabels, InfoMissing}

\* ---------------------------------------------------------- initial state
InitialState ==
  [ action      |-> Null,
    address     |-> Null,
    ethBalance  |-> 0,
    gavBalance  |-> 0,
    accounts    |-> << >>,
    instance    |-> Null,
    loading     |-> TRUE,
    blockNumber |-> Null,
    totalSupply |-> Null,
    remaining   |-> Null,
    price       |-> Null ]

NoGlobals == [r \in GlobalReads |-> Null]

\* No pass has written the balances yet.
NoReads == [pass |-> 0, g |-> NoGlobals, gav |-> << >>, eth |-> << >>, snap |-> << >>]

Init ==
  /\ state = InitialState
  /\ boot = "constructed"
  /\ subscribed = FALSE
  /\ console = << >>
  /\ head = 0
  /\ chain = 1
  /\ passes = << >>
  /\ src = [globals |-> 0, balances |-> 0]
  /\ last = NoReads
  /\ lastCall = [op |-> "none", arg |-> Null]

\* ------------------------------------------------------------------ startup
\* api.newContract(abi, address).instance
newContract(address) == [address |-> address]

\* infos[address].name throws a TypeError when infos has no entry for address
namesThrow(addresses, infos) ==
  \E i \in 1..Len(addresses) : addresses[i] \notin DOMAIN infos

\* the account built for one enumerated address
newAccount(address, infos) ==
  [ address    |-> address,
    name       |-> IF infos[address].name = "" THEN "Unnamed" ELSE infos[address].name,
    balance    |-> 0,
    ethBalance |-> Undefined,
    gavBalance |-> Undefined,
    hasGav     |-> Undefined ]

\* the setState without the binding
publish_noInstance(st, address, addresses, infos) ==
  [st EXCEPT !.loading = FALSE,
             !.address = Some(address),
             !.accounts = [i \in 1..Len(addresses) |-> newAccount(addresses[i], infos)]]

\* the setState of attachInterface's second callback
publish(st, address, addresses, infos) ==
  [st EXCEPT !.loading = FALSE,
             !.address = Some(address),
             !.instance = Some(newContract(address)),
             !.accounts = [i \in 1..Len(addresses) |-> newAccount(addresses[i], infos)]]

\* a catch handler that swallows the error without logging it
catchError_silent(logged) ==
  /\ console' = logged
  /\ boot' = "failed"

\* the catch handler of attachInterface; logged is the console so far
catchError(logged) ==
  /\ console' = Append(logged, "error")
  /\ boot' = "failed"

ComponentDidMount ==
  /\ boot = "constructed"
  /\ boot' = "registryAddress"
  /\ UNCHANGED <<state, subscribed, console, head, chain, passes, src, last, lastCall>>

\* api.ethcore.registryAddress() rejects, or api.newContract throws in the
\* first callback: the catch handler runs.
RegistryAddressFailed ==
  /\ boot = "registryAddress"
  /\ catchError(console)
  /\ UNCHANGED <<state, subscribed, head, chain, passes, src, last, lastCall>>

\* api.ethcore.registryAddress() resolves: the first callback logs, binds the
\* registry and issues the three reads.
RegistryAddressResolved ==
  /\ boot = "registryAddress"
  /\ console' = Append(console, "registry found")
  /\ boot' = "lookup"
  /\ UNCHANGED <<state, subscribed, head, chain, passes, src, last, lastCall>>

\* One of getAddress, listAccounts, accountsInfo rejects: the catch handler runs.
LookupRejected ==
  /\ boot = "lookup"
  /\ catchError(console)
  /\ UNCHANGED <<state, subscribed, head, chain, passes, src, last, lastCall>>

\* The three reads have resolved and attachInterface's second callback runs.
\* It throws, before its setState, when api.newContract throws or when an
\* enumerated address has no metadata; the catch handler then runs.
LookupResolved ==
  /\ boot = "lookup"
  /\ \E addresses \in AddressLists : \E infos \in InfoMaps : \E gavcoinThrows \in BOOLEAN :
       IF gavcoinThrows \/ namesThrow(addresses, infos)
       THEN /\ catchError(Append(console, "gavcoin found"))
            /\ UNCHANGED <<state, subscribed>>
       ELSE /\ console' = Append(console, "gavcoin found")
            /\ state' = publish(state, GavcoinAddress, addresses, infos)
            /\ subscribed' = TRUE
            /\ boot' = "attached"
  /\ UNCHANGED <<head, chain, passes, src, last, lastCall>>

\* ------------------------------------------------------------- arithmetic
RECURSIVE Pow10(_)
Pow10(n) == IF n = 0 THEN 1 ELSE 10 * Pow10(n - 1)

\* BigNumber.add folded over a list of results, starting from BigNumber(0)
RECURSIVE sum(_)
sum(balances) ==
  IF Len(balances) = 0 THEN 0
  ELSE sum(SubSeq(balances, 1, Len(balances) - 1)) + balances[Len(balances)]

\* BigNumber.div: the exact quotient, held as numerator and denominator
div(x, d) == [num |-> x, den |-> d]

\* Api.format.fromWei: the amount in ether (the model holds native amounts in
\* szabo, so the base unit is divided out as SzaboPerEther)
fromWei(x) == [num |-> x, den |-> SzaboPerEther]

\* BigNumber.toFormat(dp): the decimal string with dp fraction digits, rounded
\* half up; held as its whole part and its dp fraction digits.  The
\* denominators used here are powers of ten no smaller than 10^dp.
toFormat(q, dp) ==
  LET unit == q.den \div Pow10(dp)
      rounded == (q.num + unit \div 2) \div unit
  IN  [whole |-> rounded \div Pow10(dp), frac |-> rounded % Pow10(dp), dp |-> dp]

\* ------------------------------------------------------------------ actions
\* an open handler that resets the rest of the state
onAction_clobbers(st, action) == [InitialState EXCEPT !.action = Some(action)]

onAction(st, action) == [st EXCEPT !.action = Some(action)]

\* a close handler that leaves the open action in place
onActionClose_keeps(st) == st

onActionClose(st) == [st EXCEPT !.action = Null]

OnAction ==
  /\ \E action \in ActionKinds :
       /\ state' = onAction(state, action)
       /\ lastCall' = [op |-> "onAction", arg |-> Some(action)]
  /\ UNCHANGED <<boot, subscribed, console, head, chain, passes, src, last>>

OnActionClose ==
  /\ state' = onActionClose(state)
  /\ lastCall' = [op |-> "onActionClose", arg |-> Null]
  /\ UNCHANGED <<boot, subscribed, console, head, chain, passes, src, last>>

\* ----------------------------------------------------- synchronization pass
\* The fields of the state a pass can write.
Snapshot(st) ==
  [ blockNumber |-> st.blockNumber,
    totalSupply |-> st.totalSupply,
    remaining   |-> st.remaining,
    price       |-> st.price,
    ethBalance  |-> st.ethBalance,
    gavBalance  |-> st.gavBalance,
    accounts    |-> st.accounts ]

\* the first setState without the price
commitGlobals_partial(st, blockNumber, g) ==
  [st EXCEPT !.blockNumber = Some(blockNumber),
             !.totalSupply = g["totalSupply"],
             !.remaining = g["remaining"]]

\* the first setState showing the loading screen again
commitGlobals_reloading(st, blockNumber, g) ==
  [st EXCEPT !.blockNumber = Some(blockNumber),
             !.totalSupply = g["totalSupply"],
             !.remaining = g["remaining"],
             !.price = g["price"],
             !.loading = TRUE]

\* The first setState of onNewBlockNumber.
commitGlobals(st, blockNumber, g) ==
  [st EXCEPT !.blockNumber = Some(blockNumber),
             !.totalSupply = g["totalSupply"],
             !.remaining = g["remaining"],
             !.price = g["price"]]

\* the map callback with gte in place of gt
updateAccount_gte(account, ethBalance, gavBalance) ==
  [account EXCEPT !.ethBalance = Some(toFormat(fromWei(ethBalance), 3)),
                  !.gavBalance = Some(toFormat(div(gavBalance, DIVISOR), 6)),
                  !.hasGav = Some(gavBalance >= 0)]

\* The account as the map callback of the second setState leaves it.
updateAccount(account, ethBalance, gavBalance) ==
  [account EXCEPT !.ethBalance = Some(toFormat(fromWei(ethBalance), 3)),
                  !.gavBalance = Some(toFormat(div(gavBalance, DIVISOR), 6)),
                  !.hasGav = Some(gavBalance > 0)]

\* the second setState with the two totals taken from each other's results
commitBalances_swapped(st, gavBalances, ethBalances) ==
  [st EXCEPT !.ethBalance = sum(gavBalances),
             !.gavBalance = sum(ethBalances),
             !.accounts = [idx \in 1..Len(st.accounts) |->
                             updateAccount(st.accounts[idx], ethBalances[idx], gavBalances[idx])]]

\* the second setState with the totals added to the totals of the state
commitBalances_accumulating(st, gavBalances, ethBalances) ==
  [st EXCEPT !.ethBalance = st.ethBalance + sum(ethBalances),
             !.gavBalance = st.gavBalance + sum(gavBalances),
             !.accounts = [idx \in 1..Len(st.accounts) |->
                             updateAccount(st.accounts[idx], ethBalances[idx], gavBalances[idx])]]

\* the second setState keeping only the accounts that hold tokens
commitBalances_filtering(st, gavBalances, ethBalances) ==
  [st EXCEPT !.ethBalance = sum(ethBalances),
             !.gavBalance = sum(gavBalances),
             !.accounts = SelectSeq(
                            [idx \in 1..Len(st.accounts) |->
                               updateAccount(st.accounts[idx], ethBalances[idx], gavBalances[idx])],
                            LAMBDA account : ValueOf(account.hasGav))]

\* the second setState with the results matched to the accounts last to first
commitBalances_reversed(st, gavBalances, ethBalances) ==
  [st EXCEPT !.ethBalance = sum(ethBalances),
             !.gavBalance = sum(gavBalances),
             !.accounts = [idx \in 1..Len(st.accounts) |->
                             updateAccount(st.accounts[idx],
                                           ethBalances[Len(st.accounts) + 1 - idx],
                                           gavBalances[Len(st.accounts) + 1 - idx])]]

\* The second setState of onNewBlockNumber: the account list is the state's
\* at the time of the commit; the results are matched to it by position.
commitBalances(st, gavBalances, ethBalances) ==
  [st EXCEPT !.ethBalance = sum(ethBalances),
             !.gavBalance = sum(gavBalances),
             !.accounts = [idx \in 1..Len(st.accounts) |->
                             updateAccount(st.accounts[idx], ethBalances[idx], gavBalances[idx])]]

\* a handler that issues the balance reads together with the counter reads
onNewBlockNumber_eager(blockNumber, world) ==
  [ blockNumber  |-> blockNumber,
    pc           |-> "globals",
    seen         |-> {world},
    g            |-> NoGlobals,
    addrs        |-> [i \in 1..Len(state.accounts) |-> state.accounts[i].address],
    applied      |-> {},
    afterFailure |-> \E p \in 1..Len(passes) : passes[p].pc = "rejected" ]

\* The call of onNewBlockNumber: the three reads of the counters are issued.
\* seen holds the chain states the reads in flight may be served from;
\* afterFailure says whether an earlier pass had been rejected by then.
onNewBlockNumber(blockNumber, world) ==
  [ blockNumber  |-> blockNumber,
    pc           |-> "globals",
    seen         |-> {world},
    g            |-> NoGlobals,
    addrs        |-> << >>,
    applied      |-> {},
    afterFailure |-> \E p \in 1..Len(passes) : passes[p].pc = "rejected" ]

InFlight(pass) == pass.pc \in {"globals", "balances"}

\* a subscription that a rejected pass has ended
NewBlock_unsubscribing(limit) ==
  /\ head < limit
  /\ head' = head + 1
  /\ \E w \in Worlds :
       /\ chain' = w
       /\ LET later == [p \in 1..Len(passes) |->
                          IF InFlight(passes[p])
                          THEN [passes[p] EXCEPT !.seen = @ \cup {w}]
                          ELSE passes[p]]
          IN  passes' = IF subscribed /\ \A p \in 1..Len(passes) : passes[p].pc # "rejected"
                        THEN Append(later, onNewBlockNumber(head + 1, w))
                        ELSE later
  /\ UNCHANGED <<state, boot, subscribed, console, src, last, lastCall>>

\* a notification that cancels the passes still in flight
NewBlock_cancelling(limit) ==
  /\ head < limit
  /\ head' = head + 1
  /\ \E w \in Worlds :
       /\ chain' = w
       /\ LET later == [p \in 1..Len(passes) |->
                          IF InFlight(passes[p])
                          THEN [passes[p] EXCEPT !.pc = "cancelled", !.seen = {}, !.g = NoGlobals]
                          ELSE passes[p]]
          IN  passes' = IF subscribed
                        THEN Append(later, onNewBlockNumber(head + 1, w))
                        ELSE later
  /\ UNCHANGED <<state, boot, subscribed, console, src, last, lastCall>>

\* The node produces a block, at most limit of them; the subscription, if any,
\* calls the handler.
NewBlock(limit) ==
  /\ head < limit
  /\ head' = head + 1
  /\ \E w \in Worlds :
       /\ chain' = w
       /\ LET later == [p \in 1..Len(passes) |->
                          IF InFlight(passes[p])
                          THEN [passes[p] EXCEPT !.seen = @ \cup {w}]
                          ELSE passes[p]]
          IN  passes' = IF subscribed
                        THEN Append(later, onNewBlockNumber(head + 1, w))
                        ELSE later
  /\ UNCHANGED <<state, boot, subscribed, console, src, last, lastCall>>

\* A read of a pass fails: Promise.all rejects and so does the pass's promise
\* chain, which has no catch handler.  Nothing is logged, no callback runs.
PassRejected ==
  /\ \E p \in 1..Len(passes) :
       /\ InFlight(passes[p])
       /\ passes' = [passes EXCEPT ![p].pc = "rejected", ![p].seen = {}, ![p].g = NoGlobals]
  /\ UNCHANGED <<state, boot, subscribed, console, head, chain, src, last, lastCall>>

\* The record of a pass's balance commit: its reads and the snapshot it leaves.
committed(p, g, gavBalances, ethBalances, st) ==
  [pass |-> p, g |-> g, gav |-> gavBalances, eth |-> ethBalances, snap |-> Snapshot(st)]

finished(pass) ==
  [pass EXCEPT !.pc = "done", !.seen = {}, !.g = NoGlobals,
               !.applied = {"globals", "balances"}]

\* The three reads of the counters have resolved and the first callback runs:
\* it writes the counters and issues the balance reads for the accounts of the
\* state.  With no accounts both Promise.all of the balance reads resolve at
\* once and the second callback runs in the same task.
GlobalsResolved ==
  /\ \E p \in 1..Len(passes) : \E from \in [GlobalReads -> passes[p].seen] :
       /\ passes[p].pc = "globals"
       /\ LET g == [r \in GlobalReads |-> Some(World(from[r])[r])]
              st1 == commitGlobals(state, passes[p].blockNumber, g)
              n == Len(st1.accounts)
          IN  IF n = 0
              THEN /\ state' = commitBalances(st1, << >>, << >>)
                   /\ src' = [globals |-> p, balances |-> p]
                   /\ last' = committed(p, g, << >>, << >>, state')
                   /\ passes' = [passes EXCEPT ![p] = finished(@)]
              ELSE /\ state' = st1
                   /\ src' = [src EXCEPT !.globals = p]
                   /\ last' = last
                   /\ passes' = [passes EXCEPT
                        ![p].pc = "balances",
                        ![p].seen = {chain},
                        ![p].g = g,
                        ![p].applied = {"globals"},
                        ![p].addrs = [i \in 1..n |-> st1.accounts[i].address]]
  /\ UNCHANGED <<boot, subscribed, console, head, chain, lastCall>>

\* The 2N balance reads have resolved and the second callback runs: it writes
\* the totals and the accounts.
BalancesResolved ==
  /\ \E p \in 1..Len(passes) :
     \E gavFrom \in [1..Len(passes[p].addrs) -> passes[p].seen] :
     \E ethFrom \in [1..Len(passes[p].addrs) -> passes[p].seen] :
       /\ passes[p].pc = "balances"
       /\ LET addrs == passes[p].addrs
              gavBalances == [i \in 1..Len(addrs) |-> World(gavFrom[i]).gav[addrs[i]]]
              ethBalances == [i \in 1..Len(addrs) |-> World(ethFrom[i]).eth[addrs[i]]]
          IN  /\ state' = commitBalances(state, gavBalances, ethBalances)
              /\ src' = [src EXCEPT !.balances = p]
              /\ last' = committed(p, passes[p].g, gavBalances, ethBalances, state')
              /\ passes' = [passes EXCEPT ![p] = finished(@)]
  /\ UNCHANGED <<boot, subscribed, console, head, chain, lastCall>>

Next ==
  \/ ComponentDidMount
  \/ RegistryAddressFailed
  \/ RegistryAddressResolved
  \/ LookupRejected
  \/ LookupResolved
  \/ OnAction
  \/ OnActionClose
  \/ NewBlock(MaxBlocks)
  \/ PassRejected
  \/ GlobalsResolved
  \/ BalancesResolved

Spec == Init /\ [][Next]_vars

\* The same component with one more block, so that a third pass can overlap
\* two consecutive ones.
NextOverlap ==
  \/ ComponentDidMount
  \/ RegistryAddressFailed
  \/ RegistryAddressResolved
  \/ LookupRejected
  \/ LookupResolved
  \/ OnAction
  \/ OnActionClose
  \/ NewBlock(MaxBlocks + 1)
  \/ PassRejected
  \/ GlobalsResolved
  \/ BalancesResolved

SpecOverlap == Init /\ [][NextOverlap]_vars

\* A promise of the pass p settles and the pass moves on: the node answers
\* every read, with a result or an error, and the event loop runs the callback.
Settles(p) ==
  /\ p \in 1..Len(passes)
  /\ PassRejected \/ GlobalsResolved \/ BalancesResolved
  /\ passes'[p].pc # passes[p].pc

\* The component when no read stays unanswered for ever.
SpecFair == Init /\ [][Next]_vars /\ \A p \in 1..MaxBlocks : WF_vars(Settles(p))

\* ------------------------------------------------------------------ claims
Rejected == {p \in 1..Len(passes) : passes[p].pc = "rejected"}

Errors == {i \in 1..Len(console) : console[i] = "error"}

\* The snapshot attachInterface published for the account list of st: no
\* counters, zero totals, accounts without balances.
Published(st) ==
  [ blockNumber |-> Null,
    totalSupply |-> Null,
    remaining   |-> Null,
    price       |-> Null,
    ethBalance  |-> 0,
    gavBalance  |-> 0,
    accounts    |-> [i \in 1..Len(st.accounts) |->
                       [st.accounts[i] EXCEPT !.ethBalance = Undefined,
                                              !.gavBalance = Undefined,
                                              !.hasGav = Undefined]] ]

\* C1 (atomic commit): no pass is ever seen with some but not all of its
\* fields applied: each pass has applied either nothing or both its counters
\* and its balances.
C1_AtomicCommit ==
  \A p \in 1..Len(passes) : passes[p].applied \in {{}, {"globals", "balances"}}

\* C2 (single-pass consistency): once every pass that was started has
\* completed, the counters and the balances shown were written by the same
\* pass.
C2_SinglePass ==
  (passes # << >> /\ \A p \in 1..Len(passes) : passes[p].pc = "done")
    => src.globals = src.balances

\* C3 (partial-failure containment): when a pass is rejected by a failed read,
\* every snapshot field has its value from before the pass; stated for the
\* first pass, whose snapshot before it is the one attachInterface published.
C3_FailureContained ==
  (Len(passes) = 1 /\ passes[1].pc = "rejected")
    => Snapshot(state) = Published(state)

\* C4 (errors caught and logged): every rejected pass has been handled by a
\* logged error, so at least as many errors are logged as passes are rejected.
C4_ErrorsLogged == Cardinality(Rejected) <= Cardinality(Errors)

\* C5 (startup gating): after a startup failure loading is true, the error is
\* the last thing logged, address and instance are null, the account list is
\* empty, the engine is not subscribed and no pass has started.
C5_StartupGating ==
  boot = "failed" =>
    /\ state.loading
    /\ Errors # {} /\ console[Len(console)] = "error"
    /\ state.address = Null
    /\ state.instance = Null
    /\ state.accounts = << >>
    /\ ~subscribed
    /\ passes = << >>

\* C5 witness: startup failed in the second callback and blocks kept arriving.
C5_Witness == boot = "failed" /\ Len(console) = 3 /\ head = MaxBlocks

\* C6 (balance conservation, as amended): after a balance commit the two
\* totals are the exact sums of the raw token balances and of the native
\* balances in base units that the committing pass read, unscaled.
C6_RawTotals ==
  last.pass # 0 =>
    /\ state.gavBalance = sum(last.gav)
    /\ state.ethBalance = sum(last.eth)

\* C6 witness: a pass over two accounts committed non-zero totals.
C6_Witness ==
  last.pass # 0 /\ Len(last.gav) >= 2 /\ sum(last.gav) > 0 /\ sum(last.eth) > 0

\* C6 as claimed: the token total is the sum of the raw token balances divided
\* by 10^6 and the native total is the sum of the native balances converted
\* from base units.
C6_ScaledTotals ==
  last.pass # 0 =>
    /\ sum(last.gav) % DIVISOR = 0
    /\ state.gavBalance = sum(last.gav) \div DIVISOR
    /\ sum(last.eth) % SzaboPerEther = 0
    /\ state.ethBalance = sum(last.eth) \div SzaboPerEther

\* C7 (hasGav correctness): after a balance commit every account's hasGav says
\* whether the raw token balance the committing pass read for it is positive.
C7_HasGav ==
  last.pass # 0 =>
    \A i \in 1..Len(state.accounts) : state.accounts[i].hasGav = Some(last.gav[i] > 0)

\* C7 witness: a committed pass read a zero and a positive token balance.
C7_Witness ==
  /\ last.pass # 0
  /\ \E i, j \in 1..Len(state.accounts) :
       /\ last.gav[i] = 0 /\ state.accounts[i].hasGav = Some(FALSE)
       /\ last.gav[j] > 0 /\ state.accounts[j].hasGav = Some(TRUE)

IsZero(balance) ==
  balance # Undefined /\ ValueOf(balance).whole = 0 /\ ValueOf(balance).frac = 0

\* C8 (initial account list): until a pass writes the balances, every account
\* of the published list has zero ethBalance and gavBalance, hasGav false and
\* a non-empty name.
C8_InitialAccounts ==
  (boot = "attached" /\ src.balances = 0) =>
    \A i \in 1..Len(state.accounts) :
      /\ state.accounts[i].name # ""
      /\ IsZero(state.accounts[i].ethBalance)
      /\ IsZero(state.accounts[i].gavBalance)
      /\ state.accounts[i].hasGav = Some(FALSE)

\* C9 (action exclusivity): the action is null or one of the three kinds;
\* after onAction(kind) it is kind, after onActionClose() it is null, and
\* before any call it is null.
C9_ActionExclusive ==
  /\ state.action \in {Null} \cup {Some(kind) : kind \in ActionKinds}
  /\ lastCall.op = "onAction" => state.action = lastCall.arg
  /\ lastCall.op = "onActionClose" => state.action = Null
  /\ lastCall.op = "none" => state.action = Null

\* C9 witness: a dialog was closed while the engine was synchronizing.
C9_Witness ==
  /\ lastCall.op = "onActionClose" /\ state.action = Null
  /\ \E p \in 1..Len(passes) : InFlight(passes[p])

ExceptBlockNumber(snap) == [snap EXCEPT !.blockNumber = Null]

\* C10 (idempotence under no-op blocks): when a pass commits the same reads as
\* the pass notified just before it, which committed just before it, the
\* snapshot it leaves equals the snapshot that pass left, in every field but
\* blockNumber.
C10_Idempotent ==
  [][ ( /\ last.pass # 0
        /\ last'.pass = last.pass + 1
        /\ last'.g = last.g /\ last'.gav = last.gav /\ last'.eth = last.eth )
        => ExceptBlockNumber(Snapshot(state')) = ExceptBlockNumber(last.snap) ]_vars

Logged(entry) == {i \in 1..Len(console) : console[i] = entry}

\* C11 (startup ordering): the registry and the contract are each resolved at
\* most once; the engine is subscribed only once loading is false and the
\* address and the binding are set; passes exist only when it is subscribed.
C11_StartupOrdering ==
  /\ Cardinality(Logged("registry found")) <= 1
  /\ Cardinality(Logged("gavcoin found")) <= 1
  /\ subscribed => (~state.loading /\ state.address # Null /\ state.instance # Null)
  /\ passes # << >> => subscribed
  /\ boot # "attached" => (state.loading /\ state.instance = Null /\ ~subscribed)

\* C11 witness: a pass is running after the one publication.
C11_Witness ==
  /\ \E p \in 1..Len(passes) : InFlight(passes[p])
  /\ Cardinality(Logged("gavcoin found")) = 1
  /\ state.instance = Some(newContract(GavcoinAddress))

\* C12 (engine stays subscribed): after a pass has been rejected the engine is
\* still subscribed, and every block from that pass's on, up to the latest,
\* has started a pass of its own.
C12_StaysSubscribed ==
  \A p \in 1..Len(passes) :
    passes[p].pc = "rejected" =>
      /\ subscribed
      /\ \A b \in passes[p].blockNumber..head :
           \E q \in 1..Len(passes) : passes[q].blockNumber = b

\* C12 witness: a pass that started after another had been rejected has
\* committed its counters and its balances.
C12_Witness ==
  \E q \in 1..Len(passes) :
    passes[q].afterFailure /\ passes[q].pc = "done" /\ src.balances = q /\ src.globals = q

\* The block number and the three counters of a state.
GlobalState(st) ==
  [ blockNumber |-> st.blockNumber,
    totalSupply |-> st.totalSupply,
    remaining   |-> st.remaining,
    price       |-> st.price ]

\* The four fields as the pass p writes them from its reads g.
GlobalsOf(p, g) ==
  [ blockNumber |-> Some(passes[p].blockNumber),
    totalSupply |-> g["totalSupply"],
    remaining   |-> g["remaining"],
    price       |-> g["price"] ]

\* C13 (counters replaced wholesale): the block number and the three counters
\* are all null or all the values of one pass, the last one to have written
\* them; every step that changes one of them writes all four from the reads
\* of a single pass.
C13_Wholesale ==
  /\ [](IF src.globals = 0
        THEN GlobalState(state) = GlobalState(InitialState)
        ELSE /\ \A f \in DOMAIN GlobalState(state) : GlobalState(state)[f] # Null
             /\ state.blockNumber = Some(passes[src.globals].blockNumber)
             /\ passes[src.globals].pc = "balances" =>
                  GlobalState(state) = GlobalsOf(src.globals, passes[src.globals].g)
             /\ last.pass = src.globals =>
                  GlobalState(state) = GlobalsOf(src.globals, last.g))
  /\ [][GlobalState(state') # GlobalState(state) =>
          /\ src'.globals # 0
          /\ passes[src'.globals].pc = "globals"
          /\ \E from \in [GlobalReads -> Worlds] :
               GlobalState(state') =
                 GlobalsOf(src'.globals, [r \in GlobalReads |-> Some(World(from[r])[r])])]_vars

\* C13 witness: two passes overlap, the counters shown are the second's and
\* the balances shown are the first's.
C13_Witness ==
  /\ src.globals = 2
  /\ src.balances = 1
  /\ passes[2].pc = "balances"
  /\ GlobalState(state) = GlobalsOf(2, passes[2].g)
  /\ state.blockNumber = Some(2)

\* The addresses of the accounts of a state, in order.
AccountAddresses(st) == [i \in 1..Len(st.accounts) |-> st.accounts[i].address]

\* C14 (fixed account membership): once loading is false, no step changes the
\* address or the ordered sequence of the accounts' addresses.
C14_FixedMembership ==
  [][~state.loading =>
       /\ state'.address = state.address
       /\ AccountAddresses(state') = AccountAddresses(state)]_vars

\* C14 witness: two accounts were published, a pass has been rejected and
\* another has written the balances of both accounts.
C14_Witness ==
  /\ ~state.loading
  /\ AccountAddresses(state) = <<2, 1>>
  /\ Rejected # {}
  /\ src.balances # 0
  /\ \A i \in 1..2 : state.accounts[i].hasGav # Undefined

\* C15 (actions and synchronization are independent): onAction and
\* onActionClose can be called in every state; a call sets the action field to
\* its argument (or to null) and changes nothing else, whether or not an action
\* was open; no other step changes the action field.
C15_ActionIndependent ==
  /\ [](ENABLED OnAction /\ ENABLED OnActionClose)
  /\ [][/\ lastCall' # lastCall =>
             /\ state'.action = lastCall'.arg
             /\ [state' EXCEPT !.action = state.action] = state
             /\ UNCHANGED <<boot, subscribed, console, head, chain, passes, src, last>>
        /\ lastCall' = lastCall => state'.action = state.action]_vars

\* C15 witness: an action was opened and is still open while one pass is in
\* flight and another has written the counters and the balances.
C15_Witness ==
  /\ lastCall.op = "onAction"
  /\ state.action = Some("Transfer")
  /\ \E p \in 1..Len(passes) : InFlight(passes[p])
  /\ src.balances # 0
  /\ state.blockNumber # Null

\* C16 (last writer wins): once two overlapping passes have both completed,
\* the snapshot holds the values of the pass that committed last: its block
\* number and counters, the totals and the accounts of its balance reads.
C16_LastWriterWins ==
  (Len(passes) = 2 /\ \A p \in 1..2 : passes[p].pc = "done") =>
    /\ GlobalState(state) = GlobalsOf(last.pass, last.g)
    /\ state.ethBalance = sum(last.eth)
    /\ state.gavBalance = sum(last.gav)
    /\ state.accounts = last.snap.accounts

\* C17 (fan-out ordering): a pass whose three counter reads have not all
\* resolved has issued no balance read; once they have, it has issued one
\* token-balance read and one native-balance read for each account of the
\* state's list, in order; it commits its balances only when in that phase,
\* with one result of each kind per account.
C17_FanOut ==
  /\ [](\A p \in 1..Len(passes) :
          /\ passes[p].pc = "globals" =>
               passes[p].addrs = << >> /\ passes[p].applied = {} /\ passes[p].g = NoGlobals
          /\ passes[p].pc = "balances" =>
               /\ \A r \in GlobalReads : passes[p].g[r] # Null
               /\ passes[p].addrs = AccountAddresses(state)
               /\ passes[p].applied = {"globals"}
          /\ passes[p].pc = "done" =>
               passes[p].addrs = AccountAddresses(state))
  /\ [][last' # last =>
          /\ last'.pass \in 1..Len(passes)
          /\ \/ passes[last'.pass].pc = "balances"
             \/ passes[last'.pass].pc = "globals" /\ state.accounts = << >>
          /\ passes'[last'.pass].pc = "done"
          /\ Len(last'.gav) = Len(state.accounts)
          /\ Len(last'.eth) = Len(state.accounts)]_vars

\* C17 witness: with two accounts, the first pass has committed two results
\* of each kind and the second has its two times two balance reads in flight.
C17_Witness ==
  /\ Len(passes) = 2
  /\ passes[1].pc = "done" /\ last.pass = 1 /\ Len(last.gav) = 2 /\ Len(last.eth) = 2
  /\ passes[2].pc = "balances" /\ passes[2].addrs = <<2, 1>>

\* C18 (no cancellation): a block notification leaves the passes in flight
\* where they are, and every pass that was started is eventually rejected by a
\* failed read or performs its final commit, whatever other passes do.
C18_NoCancellation ==
  /\ [][head' # head =>
          \A p \in 1..Len(passes) :
            /\ passes'[p].pc = passes[p].pc
            /\ passes'[p].g = passes[p].g
            /\ passes'[p].addrs = passes[p].addrs
            /\ passes'[p].applied = passes[p].applied
            /\ passes[p].seen \subseteq passes'[p].seen]_vars
  /\ \A p \in 1..MaxBlocks :
       (Len(passes) >= p) ~> (Len(passes) >= p /\ passes[p].pc \in {"done", "rejected"})

\* C18 witness: the first pass has performed its final commit after the
\* second pass had started and written its counters.
C18_Witness ==
  /\ Len(passes) = 2
  /\ passes[1].pc = "done"
  /\ src = [globals |-> 2, balances |-> 1]
  /\ InFlight(passes[2])

\* C19 (per-account attribution): after a pass's balance commit, the account
\* at each position of the state is the one the pass issued its reads for at
\* that position, the results it committed there are balances of that
\* account's address, and the account shows exactly those results.
C19_Attribution ==
  last.pass # 0 =>
    /\ state.accounts = last.snap.accounts
    /\ Len(state.accounts) = Len(passes[last.pass].addrs)
    /\ \A i \in 1..Len(state.accounts) :
         LET account == state.accounts[i]
         IN  /\ passes[last.pass].addrs[i] = account.address
             /\ \E w \in Worlds : last.gav[i] = World(w).gav[account.address]
             /\ \E w \in Worlds : last.eth[i] = World(w).eth[account.address]
             /\ account.gavBalance = Some(toFormat(div(last.gav[i], DIVISOR), 6))
             /\ account.ethBalance = Some(toFormat(fromWei(last.eth[i]), 3))
             /\ account.hasGav = Some(last.gav[i] > 0)

\* C19 witness: the first of two overlapping passes has committed the
\* balances of two accounts, read from different chain states, after the
\* second pass wrote its counters.
C19_Witness ==
  /\ last.pass = 1
  /\ src = [globals |-> 2, balances |-> 1]
  /\ AccountAddresses(state) = <<2, 1>>
  /\ last.gav = <<1500001, 1500000>>
  /\ state.accounts[1].gavBalance # state.accounts[2].gavBalance
  /\ state.accounts[1].ethBalance # state.accounts[2].ethBalance

\* C20 (loading is monotone): loading starts true; whenever it is false the
\* address and the contract binding are set, the binding being the contract at
\* that address; once it is false no step makes it true again or changes the
\* address or the binding.
C20_LoadingMonotone ==
  /\ state.loading
  /\ [](~state.loading =>
          /\ state.address # Null
          /\ state.instance = Some(newContract(ValueOf(state.address))))
  /\ [][~state.loading =>
          /\ ~state'.loading
          /\ state'.address = state.address
          /\ state'.instance = state.instance]_vars

\* C20 witness: loading is false after a pass has written the counters and
\* the balances and another pass has been rejected.
C20_Witness ==
  /\ ~state.loading
  /\ state.address = Some(GavcoinAddress)
  /\ state.blockNumber # Null
  /\ last.pass # 0
  /\ \E p \in 1..Len(passes) : passes[p].pc = "rejected"
====
